---- MODULE Spec2Model ----
(***************************************************************************)
(* The face store of The-Blair-Which-Project: the value types of           *)
(* facials.py, the SQLite persistence layer of facedb.py (two tables,      *)
(* images and faces, with the registered column adapters and converters)   *)
(* and the facade of facials_api.py.                                       *)
(*                                                                         *)
(* Representation.  A Python str that goes through an adapter or a         *)
(* converter is a sequence of one-character strings, so that join, split,  *)
(* str(int), int(str) and LIKE are computed character by character.  An    *)
(* Optional value is a set of at most one element: None is {} and a value  *)
(* v is {v}.  A table is the sequence of its rows in rowid order; no row   *)
(* is ever deleted, so the rowid of a row is its position.                 *)
(***************************************************************************)
EXTENDS Integers, Sequences, FiniteSets, TLC

VARIABLES images, faces, call, ret, given

vars == <<images, faces, call, ret, given>>

(***************************************************************************)
(* Bounds of the model.                                                    *)
(***************************************************************************)
MaxImages == 2
MaxFaces == 3
MaxCoord == 3

(***************************************************************************)
(* Python values.                                                          *)
(***************************************************************************)
None == {}
Some(v) == {v}
The(o) == CHOOSE v \in o : TRUE

Range(s) == {s[i] : i \in 1..Len(s)}

\* ---- str -------------------------------------------------------------
COMMA == ","

RECURSIVE join(_, _)
join(sep, parts) ==
    IF Len(parts) = 0 THEN <<>>
    ELSE IF Len(parts) = 1 THEN parts[1]
    ELSE parts[1] \o <<sep>> \o join(sep, Tail(parts))

RECURSIVE split(_, _)
split(s, sep) ==
    IF \A i \in 1..Len(s) : s[i] # sep THEN <<s>>
    ELSE LET i == CHOOSE k \in 1..Len(s) :
                      s[k] = sep /\ \A j \in 1..(k - 1) : s[j] # sep
         IN  <<SubSeq(s, 1, i - 1)>> \o split(SubSeq(s, i + 1, Len(s)), sep)

DigitChars == <<"0", "1", "2", "3", "4", "5", "6", "7", "8", "9">>

RECURSIVE digits(_)
digits(n) ==
    IF n < 10 THEN <<DigitChars[n + 1]>>
    ELSE digits(n \div 10) \o <<DigitChars[(n % 10) + 1]>>

\* str(n) of an int
str(n) == IF n < 0 THEN <<"-">> \o digits(0 - n) ELSE digits(n)

DigitVal(c) == CHOOSE d \in 0..9 : DigitChars[d + 1] = c

RECURSIVE natural(_)
natural(s) ==
    IF Len(s) = 1 THEN DigitVal(s[1])
    ELSE 10 * natural(SubSeq(s, 1, Len(s) - 1)) + DigitVal(s[Len(s)])

\* int(s) of the decimal text of an int
int(s) == IF s[1] = "-" THEN 0 - natural(Tail(s)) ELSE natural(s)

\* SQLite folds the case of ASCII letters when it evaluates LIKE (here, of
\* the upper-case letters the tags of the model hold)
lower(c) == IF c = "H" THEN "h" ELSE IF c = "S" THEN "s" ELSE c
fold(s) == [i \in 1..Len(s) |-> lower(s[i])]

\* text LIKE '%pat%', for a pat that holds none of the wildcards % and _
like_contains(text, pat) ==
    \E i \in 0..(Len(text) - Len(pat)) :
        SubSeq(fold(text), i + 1, i + Len(pat)) = fold(pat)

(***************************************************************************)
(* facials.py: the value types.                                            *)
(***************************************************************************)
FaceLocation(x1, y1, x2, y2) == [x1 |-> x1, y1 |-> y1, x2 |-> x2, y2 |-> y2]

\* the collaborator's box order is (top, right, bottom, left)
from_fr_rect_as_rect(r) == FaceLocation(r[1], r[2], r[3], r[4])

from_fr_rect(r) == FaceLocation(r[4], r[1], r[2], r[3])

fr_rect(loc) == <<loc.y1, loc.x2, loc.y2, loc.x1>>

rect(loc) == <<loc.x1, loc.y1, loc.x2, loc.y2>>

BYTE_STREAM == "BYTE_STREAM"
LOCAL_PATH == "LOCAL_PATH"
URL == "URL"
ID == "ID"
ImageFormat == {BYTE_STREAM, LOCAL_PATH, URL, ID}

\* image_data is a Union[str, bytes, int]: the text of a path or of a byte
\* stream, or (for ImageFormat.ID) the optional rowid of a stored image
data_text(s) == [text |-> s, ref |-> None]
data_ref(o) == [text |-> "", ref |-> o]

\* **extra_properties: the keyword arguments given, by name
no_properties == [keys |-> {}, description |-> "", tags |-> None, id |-> None]

FaceData(image_format, image_data, location, encoding, extra_properties) ==
    [image_format |-> image_format, image_data |-> image_data,
     location |-> location, encoding |-> encoding,
     extra_properties |-> extra_properties]

(***************************************************************************)
(* The face_recognition collaborator, as facials.py calls it.  An image is *)
(* named by the text of its path or bytes; what the collaborator finds in  *)
(* it is fixed per image.                                                  *)
(***************************************************************************)
Unreadable == {"broken.jpg"}

\* load_image_file raises on data that is no image
load_image_file(data) == IF data \in Unreadable THEN None ELSE Some(data)

face_locations(image) ==
    CASE image = "solo.jpg" -> << <<0, 2, 3, 1>> >>
      [] image = "group.jpg" -> << <<0, 2, 3, 1>>, <<1, 3, 2, 0>> >>
      [] OTHER -> <<>>

face_encodings(image, location) ==
    IF image = "solo.jpg" THEN <<3, 4>>
    ELSE IF location = <<0, 2, 3, 1>> THEN <<0, 0>>
    ELSE <<6, 8>>

RECURSIVE sum_squares(_, _)
sum_squares(a, b) ==
    IF Len(a) = 0 THEN 0
    ELSE (a[1] - b[1]) * (a[1] - b[1]) + sum_squares(Tail(a), Tail(b))

sqrt(n) == CHOOSE r \in 0..n : r * r <= n /\ (r + 1) * (r + 1) > n

\* np.linalg.norm(face_encodings - face_to_compare, axis=1); the encodings of
\* the model are integer vectors whose distances are whole numbers
face_distance(encodings, face_to_compare) ==
    [i \in 1..Len(encodings) |-> sqrt(sum_squares(encodings[i], face_to_compare))]

NotImplementedError == "NotImplementedError"
ImageLoadError == "ImageLoadError"
TypeError == "TypeError"
OperationalError == "sqlite3.OperationalError"
IntegrityError == "sqlite3.IntegrityError"
NoError == ""

\* a call's outcome: the value returned, or the exception raised
returned(v) == [value |-> v, raised |-> NoError]
raise(e, v) == [value |-> v, raised |-> e]

\* the faces of a readable image, each with its location and its encoding
extract_faces(image_format, image_data) ==
    LET loaded == load_image_file(image_data) IN
    IF loaded = None THEN raise(ImageLoadError, <<>>)
    ELSE LET image == The(loaded)
             locs == face_locations(image)
         IN  returned([i \in 1..Len(locs) |->
                 FaceData(image_format, data_text(image_data),
                          from_fr_rect(locs[i]),
                          face_encodings(image, locs[i]),
                          no_properties)])

extract_from_image_any_format(image_format, image_data) ==
    extract_faces(image_format, image_data)

extract_from_image(image_format, image_data) ==
    IF image_format \notin {BYTE_STREAM, LOCAL_PATH}
    THEN raise(NotImplementedError, <<>>)
    ELSE extract_faces(image_format, image_data)

\* An iterable: a list can be walked any number of times, a generator once.
as_list(items) == [kind |-> "list", items |-> items, pos |-> 0]
as_generator(items) == [kind |-> "generator", items |-> items, pos |-> 0]

\* one full walk over an iterable: what it yields, and the iterable after it
walk(it) ==
    IF it.kind = "list" THEN [yield |-> it.items, after |-> it]
    ELSE [yield |-> SubSeq(it.items, it.pos + 1, Len(it.items)),
          after |-> [it EXCEPT !.pos = Len(it.items)]]

zip(a, b) ==
    [i \in 1..(IF Len(a) < Len(b) THEN Len(a) ELSE Len(b)) |-> <<a[i], b[i]>>]

compare_reversed(self, other_faces) ==
    LET first == walk(other_faces)
        n == Len(first.yield)
        backwards == [i \in 1..n |-> first.yield[n + 1 - i]]
        distances == face_distance([i \in 1..n |-> backwards[i].encoding],
                                   self.encoding)
    IN  zip(backwards, distances)

compare(self, other_faces) ==
    LET first == walk(other_faces)
        other_encodings == [i \in 1..Len(first.yield) |-> first.yield[i].encoding]
        distances == face_distance(other_encodings, self.encoding)
        second == walk(first.after)
    IN  zip(second.yield, distances)

(***************************************************************************)
(* facedb.py: the column adapters and converters.                          *)
(***************************************************************************)
\* np.save writes the array's shape and then its elements; np.load reads the
\* elements back and gives them that shape
adapt_nparray(arr) == [magic |-> "NUMPY", shape |-> <<Len(arr)>>, body |-> arr]

convert_nparray(blob) == [i \in 1..blob.shape[1] |-> blob.body[i]]

adapt_facelocation(location) ==
    join(COMMA, [i \in 1..4 |-> str(rect(location)[i])])

convert_facelocation(text) ==
    LET parts == split(text, COMMA)
    IN  FaceLocation(int(parts[1]), int(parts[2]), int(parts[3]), int(parts[4]))

\* a str is a sequence of characters; an object that is no str (an int given
\* as a tag, say) is a one-element sequence holding its type's name
TypeNames == {"int"}
is_str(x) == ~(Len(x) = 1 /\ x[1] \in TypeNames)

\* ','.join(tags) raises TypeError on an element that is no str
adapt_tags_fails(tags) == \E i \in 1..Len(tags) : ~is_str(tags[i])

adapt_tags(tags) == join(COMMA, tags)

convert_tags(text) == split(text, COMMA)

\* sqlite3 with detect_types=PARSE_DECLTYPES hands a column's bytes to the
\* converter registered for its declared type, except that a value of zero
\* length (like NULL) is given as None without calling the converter
fetch_tags(text) == IF Len(text) = 0 THEN None ELSE Some(convert_tags(text))

(***************************************************************************)
(* facedb.py: FaceDB.  A store is the two tables, and (as history, for the *)
(* properties) the arguments each face row was inserted with.              *)
(***************************************************************************)
foreign_keys_off == FALSE

\* PRAGMA foreign_keys = 1
foreign_keys == TRUE

\* one call's effect: the store after it and its outcome
effect(st, out) == [st |-> st, out |-> out]

add_image(st, image_format, image_data, description) ==
    LET row == [IMAGE_FORMAT |-> image_format, IMAGE_DATA |-> image_data,
                DESCRIPTION |-> description]
    IN  effect([st EXCEPT !.images = Append(@, row)],
               returned(Some(Len(st.images) + 1)))

add_face(st, face_data, image_index, description, tags) ==
    IF adapt_tags_fails(tags)
    THEN effect(st, raise(TypeError, None))
    ELSE IF /\ foreign_keys
            /\ image_index # None
            /\ The(image_index) \notin 1..Len(st.images)
    THEN effect(st, raise(IntegrityError, None))
    ELSE LET row == [ENCODING |-> adapt_nparray(face_data.encoding),
                     IMAGE |-> image_index,
                     LOCATION |-> adapt_facelocation(face_data.location),
                     DESCRIPTION |-> description,
                     TAGS |-> adapt_tags(tags)]
             args == [encoding |-> face_data.encoding,
                      location |-> face_data.location,
                      image_index |-> image_index,
                      description |-> description,
                      tags |-> tags]
         IN  effect([st EXCEPT !.faces = Append(@, row),
                               !.given = Append(@, args)],
                    returned(Some(Len(st.faces) + 1)))

\* the list comprehension of add_faces_from_image: one add_face per face, in
\* order, stopping at the first that raises
RECURSIVE add_each_face(_, _, _, _, _, _)
add_each_face(st, face_list, image_index, description, tags, done) ==
    IF Len(face_list) = 0 THEN effect(st, returned(done))
    ELSE LET one == add_face(st, face_list[1], image_index, description, tags) IN
         IF one.out.raised # NoError THEN effect(one.st, raise(one.out.raised, <<>>))
         ELSE add_each_face(one.st, Tail(face_list), image_index, description,
                            tags, Append(done, The(one.out.value)))

add_faces_from_image_eager(st, image_format, image_data, description, tags) ==
    LET extracted == extract_from_image(image_format, image_data) IN
    IF extracted.raised # NoError THEN effect(st, raise(extracted.raised, <<>>))
    ELSE LET image == add_image(st, image_format, image_data, description)
         IN  add_each_face(image.st, extracted.value, image.out.value,
                           description, tags, <<>>)

add_faces_from_image(st, image_format, image_data, description, tags) ==
    LET extracted == extract_from_image(image_format, image_data) IN
    IF extracted.raised # NoError THEN effect(st, raise(extracted.raised, <<>>))
    ELSE IF Len(extracted.value) = 0 THEN effect(st, returned(<<>>))
    ELSE LET image == add_image(st, image_format, image_data, description)
         IN  add_each_face(image.st, extracted.value, image.out.value,
                           description, tags, <<>>)

\* a row of faces as get_faces_by_tags and get_face_by_id build it
stored_face(st, id, keys) ==
    LET row == st.faces[id] IN
    FaceData(ID, data_ref(row.IMAGE), convert_facelocation(row.LOCATION),
             convert_nparray(row.ENCODING),
             [keys |-> keys, description |-> row.DESCRIPTION,
              tags |-> fetch_tags(row.TAGS),
              id |-> IF "id" \in keys THEN Some(id) ELSE None])

RECURSIVE select_ids(_, _, _)
select_ids(st, from, tags) ==
    IF from > Len(st.faces) THEN <<>>
    ELSE (IF \E i \in 1..Len(tags) : like_contains(st.faces[from].TAGS, tags[i])
          THEN <<from>> ELSE <<>>) \o select_ids(st, from + 1, tags)

\* WHERE is followed by the OR of one LIKE per tag: by nothing when tags is
\* empty, which SQLite refuses as a syntax error
get_faces_by_tags(st, tags) ==
    IF Len(tags) = 0 THEN raise(OperationalError, as_generator(<<>>))
    ELSE LET matches == select_ids(st, 1, tags) IN
         returned(as_generator([i \in 1..Len(matches) |->
             stored_face(st, matches[i], {"description", "tags", "id"})]))

get_face_by_id(st, id) ==
    IF id \notin 1..Len(st.faces) THEN returned(None)
    ELSE returned(Some(stored_face(st, id, {"description", "tags"})))

\* SELECT DISTINCT TAGS, each value converted, then the set of their elements
\* (iterating a value that came back as None raises TypeError)
get_all_tags(st) ==
    LET combinations == {fetch_tags(st.faces[i].TAGS) : i \in 1..Len(st.faces)} IN
    IF None \in combinations THEN raise(TypeError, {})
    ELSE returned(UNION {Range(The(c)) : c \in combinations})

(***************************************************************************)
(* facials_api.py: the facade over the module-level face_db.               *)
(***************************************************************************)
get_available_tags(st) == get_all_tags(st)

compare_stored_face_against_tags(st, face_id, tags) ==
    LET face == get_face_by_id(st, face_id).value IN
    IF face = None THEN returned(<<>>)
    ELSE LET found == get_faces_by_tags(st, tags) IN
         IF found.raised # NoError THEN raise(found.raised, <<>>)
         ELSE returned(compare(The(face), as_list(walk(found.value).yield)))

compare_face_from_image_against_tags(st, image_format, image_data, tags) ==
    LET face == extract_from_image(image_format, image_data) IN
    IF face.raised # NoError THEN raise(face.raised, <<>>)
    ELSE IF Len(face.value) = 0 THEN returned(<<>>)
    ELSE LET found == get_faces_by_tags(st, tags) IN
         IF found.raised # NoError THEN raise(found.raised, <<>>)
         ELSE returned(compare(face.value[1], as_list(walk(found.value).yield)))

upload_faces_from_image(st, image_format, image_data, description, tags) ==
    add_faces_from_image(st, image_format, image_data, description, tags)

(***************************************************************************)
(* The state machine.  call is the last call made and its arguments, ret   *)
(* its outcome; every action is one call run to completion.                *)
(***************************************************************************)
Store == [images |-> images, faces |-> faces, given |-> given]

NoCall ==
    [op |-> "", image_format |-> "", image_data |-> "", description |-> "",
     tags |-> <<>>, face_id |-> None, face_data |-> None, image_index |-> None,
     candidates |-> as_list(<<>>), rect |-> <<>>, location |-> None]

NoRet ==
    [raised |-> NoError, ids |-> <<>>, index |-> None, face |-> None,
     faces |-> as_list(<<>>), tags |-> {}, pairs |-> <<>>,
     rect |-> <<>>, location |-> None]

Init ==
    /\ images = <<>>
    /\ faces = <<>>
    /\ given = <<>>
    /\ call = NoCall
    /\ ret = NoRet

\* the call c leaves the store st and the outcome r
Done(c, st, r) ==
    /\ Len(st.images) <= MaxImages
    /\ Len(st.faces) <= MaxFaces
    /\ call' = c
    /\ images' = st.images
    /\ faces' = st.faces
    /\ given' = st.given
    /\ ret' = r

AddImage(image_format, image_data, description) ==
    LET e == add_image(Store, image_format, image_data, description) IN
    Done([NoCall EXCEPT !.op = "add_image", !.image_format = image_format,
                        !.image_data = image_data, !.description = description],
         e.st,
         [NoRet EXCEPT !.raised = e.out.raised, !.index = e.out.value])

AddFace(face_data, image_index, description, tags) ==
    LET e == add_face(Store, face_data, image_index, description, tags) IN
    Done([NoCall EXCEPT !.op = "add_face", !.face_data = Some(face_data),
                        !.image_index = image_index,
                        !.description = description, !.tags = tags],
         e.st,
         [NoRet EXCEPT !.raised = e.out.raised, !.index = e.out.value])

AddFacesFromImage(image_format, image_data, description, tags) ==
    LET e == add_faces_from_image(Store, image_format, image_data, description, tags) IN
    Done([NoCall EXCEPT !.op = "add_faces_from_image",
                        !.image_format = image_format, !.image_data = image_data,
                        !.description = description, !.tags = tags],
         e.st,
         [NoRet EXCEPT !.raised = e.out.raised, !.ids = e.out.value])

UploadFacesFromImage(image_format, image_data, description, tags) ==
    LET e == upload_faces_from_image(Store, image_format, image_data, description, tags) IN
    Done([NoCall EXCEPT !.op = "upload_faces_from_image",
                        !.image_format = image_format, !.image_data = image_data,
                        !.description = description, !.tags = tags],
         e.st,
         [NoRet EXCEPT !.raised = e.out.raised, !.ids = e.out.value])

ExtractFromImage(image_format, image_data) ==
    LET out == extract_from_image(image_format, image_data) IN
    Done([NoCall EXCEPT !.op = "extract_from_image",
                        !.image_format = image_format, !.image_data = image_data],
         Store,
         [NoRet EXCEPT !.raised = out.raised, !.faces = as_list(out.value)])

CompareFaceFromImageAgainstTags(image_format, image_data, tags) ==
    LET out == compare_face_from_image_against_tags(Store, image_format, image_data, tags) IN
    Done([NoCall EXCEPT !.op = "compare_face_from_image_against_tags",
                        !.image_format = image_format, !.image_data = image_data,
                        !.tags = tags],
         Store,
         [NoRet EXCEPT !.raised = out.raised, !.pairs = out.value])

CompareStoredFaceAgainstTags(face_id, tags) ==
    LET out == compare_stored_face_against_tags(Store, face_id, tags) IN
    Done([NoCall EXCEPT !.op = "compare_stored_face_against_tags",
                        !.face_id = Some(face_id), !.tags = tags],
         Store,
         [NoRet EXCEPT !.raised = out.raised, !.pairs = out.value])

GetFacesByTags(tags) ==
    LET out == get_faces_by_tags(Store, tags) IN
    Done([NoCall EXCEPT !.op = "get_faces_by_tags", !.tags = tags],
         Store,
         [NoRet EXCEPT !.raised = out.raised, !.faces = out.value])

GetFaceById(id) ==
    LET out == get_face_by_id(Store, id) IN
    Done([NoCall EXCEPT !.op = "get_face_by_id", !.face_id = Some(id)],
         Store,
         [NoRet EXCEPT !.raised = out.raised, !.face = out.value])

GetAvailableTags ==
    LET out == get_available_tags(Store) IN
    Done([NoCall EXCEPT !.op = "get_all_tags"],
         Store,
         [NoRet EXCEPT !.raised = out.raised, !.tags = out.value])

\* some_face.compare(candidates), the candidates being what the store hands
\* out for tags: the generator of get_faces_by_tags itself (lazy), or the list
\* made of it
Compare(face_id, tags, lazy) ==
    LET found == get_faces_by_tags(Store, tags)
        candidates == IF lazy THEN found.value
                      ELSE as_list(walk(found.value).yield)
    IN  /\ face_id \in 1..Len(faces)
        /\ found.raised = NoError
        /\ Done([NoCall EXCEPT !.op = "compare", !.face_id = Some(face_id),
                               !.tags = tags, !.candidates = candidates],
                Store,
                [NoRet EXCEPT !.pairs =
                     compare(The(get_face_by_id(Store, face_id).value), candidates)])

FromFrRect(r) ==
    Done([NoCall EXCEPT !.op = "from_fr_rect", !.rect = r],
         Store,
         [NoRet EXCEPT !.location = Some(from_fr_rect(r)),
                       !.rect = fr_rect(from_fr_rect(r))])

FrRect(loc) ==
    Done([NoCall EXCEPT !.op = "fr_rect", !.location = Some(loc)],
         Store,
         [NoRet EXCEPT !.rect = fr_rect(loc),
                       !.location = Some(from_fr_rect(fr_rect(loc)))])

(***************************************************************************)
(* The inputs of the calls.                                                *)
(***************************************************************************)
hell == <<"h", "e", "l", "l">>
shell == <<"s", "h", "e", "l", "l">>
Hell == <<"H", "e", "l", "l">>
fam == <<"f", "a", "m">>
a_comma_b == <<"a", COMMA, "b">>
an_int == <<"int">>

\* a face not taken from a stored image
a_face == extract_from_image(LOCAL_PATH, "solo.jpg").value[1]

ImageIndexes == {None} \cup {Some(i) : i \in 1..(MaxImages + 1)}

FaceIds == 1..(MaxFaces + 1)

\* ---- the writes: the two tables and what the inserts leave in them ----
Next ==
    \/ AddImage(LOCAL_PATH, "solo.jpg", "party")
    \/ \E ix \in ImageIndexes, tags \in {<<fam>>, <<an_int>>} :
           AddFace(a_face, ix, "party", tags)
    \/ \E f \in {LOCAL_PATH, URL, ID}, d \in {"blank.jpg", "group.jpg"},
          tags \in {<<fam>>, <<an_int>>} :
           AddFacesFromImage(f, d, "party", tags)
    \/ \E d \in {"solo.jpg", "broken.jpg"} :
           UploadFacesFromImage(LOCAL_PATH, d, "party", <<fam>>)
    \/ \E f \in {BYTE_STREAM, URL} : ExtractFromImage(f, "solo.jpg")
    \/ \E f \in {LOCAL_PATH, ID} :
           CompareFaceFromImageAgainstTags(f, "solo.jpg", <<fam>>)

Spec == Init /\ [][Next]_vars

\* ---- the reads: tags, lookups and comparisons ----
StoredTags == {<<>>, <<hell>>, <<shell>>, <<Hell>>, <<fam, hell>>, <<a_comma_b>>}

RequestedTags == {<<>>, <<hell>>, <<fam>>, <<shell, fam>>}

NextQuery ==
    \/ \E tags \in StoredTags : AddFace(a_face, None, "", tags)
    \/ UploadFacesFromImage(LOCAL_PATH, "group.jpg", "party", <<fam>>)
    \/ \E tags \in RequestedTags : GetFacesByTags(tags)
    \/ \E id \in FaceIds : GetFaceById(id)
    \/ GetAvailableTags
    \/ \E id \in {1, MaxFaces + 1}, tags \in {<<>>, <<fam>>} :
           CompareStoredFaceAgainstTags(id, tags)
    \/ \E tags \in {<<fam>>, <<hell>>}, lazy \in BOOLEAN : Compare(1, tags, lazy)

SpecQuery == Init /\ [][NextQuery]_vars

\* ---- the box conversions of FaceLocation ----
Coords == 0..MaxCoord

NextRect ==
    \/ \E t \in Coords, r \in Coords, b \in Coords, l \in Coords :
           FromFrRect(<<t, r, b, l>>)
    \/ \E x1 \in Coords, y1 \in Coords, x2 \in Coords, y2 \in Coords :
           FrRect(FaceLocation(x1, y1, x2, y2))

SpecRect == Init /\ [][NextRect]_vars

(***************************************************************************)
(* Properties.                                                             *)
(***************************************************************************)
FromImageOps == {"add_faces_from_image", "upload_faces_from_image"}

Dangling(image_index, table) ==
    image_index # None /\ The(image_index) \notin 1..Len(table)

\* C1: a call of add_faces_from_image (or of upload_faces_from_image) that
\* raises nothing, on an image in which n faces are detected, appends one
\* image row if n >= 1 and none if n = 0, appends n face rows, each naming
\* the new image row and holding the call's description and its tags
\* (comma-joined, as the column stores them), and returns the n new face ids.
C1_InsertsOneImageAndAFacePerDetection ==
    [][(call'.op \in FromImageOps /\ ret'.raised = NoError) =>
        LET n == Len(face_locations(call'.image_data)) IN
        /\ Len(images') = Len(images) + (IF n >= 1 THEN 1 ELSE 0)
        /\ SubSeq(images', 1, Len(images)) = images
        /\ Len(faces') = Len(faces) + n
        /\ SubSeq(faces', 1, Len(faces)) = faces
        /\ \A i \in 1..n :
              /\ faces'[Len(faces) + i].IMAGE = Some(Len(images'))
              /\ faces'[Len(faces) + i].DESCRIPTION = call'.description
              /\ faces'[Len(faces) + i].TAGS = join(COMMA, call'.tags)
        /\ ret'.ids = [i \in 1..n |-> Len(faces) + i]]_vars

C1_Witness ==
    /\ call.op = "add_faces_from_image"
    /\ ret.raised = NoError
    /\ Len(ret.ids) = 2
    /\ Len(images) = 2
    /\ Len(faces) = 3

\* C2: a call of add_faces_from_image that raises leaves both tables with
\* exactly the rows they had before it.
C2_FailedCallLeavesTablesUnchanged ==
    [][(call'.op \in FromImageOps /\ ret'.raised # NoError) =>
        (images' = images /\ faces' = faces)]_vars

\* C7: extraction asked for ImageFormat.URL or ImageFormat.ID raises
\* NotImplementedError, in extract_from_image, add_faces_from_image,
\* upload_faces_from_image and compare_face_from_image_against_tags alike,
\* and the call leaves both tables as they were.
C7_UnsupportedFormatRaisesAndWritesNothing ==
    [][(/\ call'.op \in FromImageOps \cup {"extract_from_image",
                           "compare_face_from_image_against_tags"}
        /\ call'.image_format \in {URL, ID}) =>
        (/\ ret'.raised = NotImplementedError
         /\ images' = images
         /\ faces' = faces)]_vars

C7_Witness ==
    /\ call.op = "add_faces_from_image"
    /\ call.image_format = URL
    /\ call.image_data = "group.jpg"
    /\ ret.raised = NotImplementedError
    /\ Len(images) = 1

\* C10: after every call, each face row's IMAGE is NULL or the id of a row
\* of images; and an add_face call naming an image id that images does not
\* hold raises and inserts nothing (sqlite3.IntegrityError, when its tags
\* bind at all).
C10_ReferentialIntegrity ==
    [][/\ \A i \in 1..Len(faces') : ~Dangling(faces'[i].IMAGE, images')
       /\ (call'.op = "add_face" /\ Dangling(call'.image_index, images)) =>
             /\ ret'.raised # NoError
             /\ (~adapt_tags_fails(call'.tags) => ret'.raised = IntegrityError)
             /\ faces' = faces
             /\ images' = images]_vars

C10_Witness ==
    /\ call.op = "add_face"
    /\ Dangling(call.image_index, images)
    /\ ret.raised = IntegrityError
    /\ \E i \in 1..Len(faces) : faces[i].IMAGE # None

\* the ids of the faces an iterable of stored faces holds, in order
IdsOf(it) == [i \in 1..Len(it.items) |-> The(it.items[i].extra_properties.id)]

TagSet(tags) == Range(tags)

\* C3: get_faces_by_tags(T1) returns no face whose tags share no element
\* with T1 (asked for "hell", it does not return a face tagged only "shell").
C3_NoFaceWithDisjointTags ==
    (call.op = "get_faces_by_tags" /\ ret.raised = NoError) =>
        \A i \in 1..Len(ret.faces.items) :
            TagSet(given[IdsOf(ret.faces)[i]].tags) \cap TagSet(call.tags) # {}

\* C4: get_faces_by_tags(tags) raises nothing, whatever tags is (empty
\* included), and returns once each exactly the stored faces of which some
\* tag equals a requested tag.
C4_ReturnsTheFacesWithARequestedTag ==
    call.op = "get_faces_by_tags" =>
        /\ ret.raised = NoError
        /\ \A id \in 1..Len(faces) :
              Cardinality({i \in 1..Len(ret.faces.items) : IdsOf(ret.faces)[i] = id})
                  = (IF TagSet(given[id].tags) \cap TagSet(call.tags) # {}
                     THEN 1 ELSE 0)

\* C5: get_all_tags() raises nothing and returns exactly the union of the
\* tag collections the faces were inserted with.
C5_AllTagsIsTheUnionOfTheInsertedTags ==
    call.op = "get_all_tags" =>
        /\ ret.raised = NoError
        /\ ret.tags = UNION {TagSet(given[i].tags) : i \in 1..Len(given)}

\* C6: get_face_by_id(id) of an inserted face returns its encoding,
\* location, image reference, description and tags as they were given to
\* the insert; of an id no insert returned, it returns None.
C6_FaceReadsBackAsInserted ==
    call.op = "get_face_by_id" =>
        /\ ret.raised = NoError
        /\ IF The(call.face_id) \in 1..Len(given)
           THEN /\ ret.face # None
                /\ LET f == The(ret.face)
                       g == given[The(call.face_id)]
                   IN  /\ f.encoding = g.encoding
                       /\ f.location = g.location
                       /\ f.image_data.ref = g.image_index
                       /\ f.extra_properties.description = g.description
                       /\ f.extra_properties.tags = Some(g.tags)
           ELSE ret.face = None

\* C8 as stated: compare returns one (candidate, distance) pair per candidate
\* supplied, in the order supplied, for every kind of candidate sequence,
\* the lazy one of get_faces_by_tags included.
C8_OnePairPerCandidateOfAnySequence ==
    call.op = "compare" =>
        /\ Len(ret.pairs) = Len(call.candidates.items)
        /\ \A i \in 1..Len(ret.pairs) : ret.pairs[i][1] = call.candidates.items[i]

\* C8 as amended: for candidates that can be walked more than once (a list,
\* as the facade passes), compare returns one (candidate, distance) pair per
\* candidate, in the order supplied, the distance being that between the
\* candidate's encoding and the query's; given the generator of
\* get_faces_by_tags itself, it returns the empty list.
C8_OnePairPerCandidateOfAList ==
    call.op = "compare" =>
        LET items == call.candidates.items
            query == stored_face(Store, The(call.face_id), {"description", "tags"})
        IN  IF call.candidates.kind = "list"
            THEN /\ Len(ret.pairs) = Len(items)
                 /\ \A i \in 1..Len(items) :
                       /\ ret.pairs[i][1] = items[i]
                       /\ ret.pairs[i][2] =
                              sqrt(sum_squares(items[i].encoding, query.encoding))
            ELSE ret.pairs = <<>>

C8_Witness ==
    /\ call.op = "compare"
    /\ call.candidates.kind = "list"
    /\ Len(ret.pairs) = 3
    /\ ret.pairs[1][2] # ret.pairs[2][2]

\* C9: the two box orders convert into each other without loss:
\* from_fr_rect(r).fr_rect() is r for every 4-tuple r, and
\* from_fr_rect(loc.fr_rect()) is loc for every FaceLocation loc.
C9_BoxOrdersRoundTrip ==
    /\ call.op = "from_fr_rect" => ret.rect = call.rect
    /\ call.op = "fr_rect" => ret.location = call.location

C9_Witness ==
    /\ call.op = "from_fr_rect"
    /\ call.rect = <<0, 1, 2, 3>>
    /\ ret.location = Some(FaceLocation(3, 0, 1, 2))
    /\ ret.rect = <<0, 1, 2, 3>>

====
